---- MODULE Spec2Model ----
(***************************************************************************)
(* Model of FloatingElementDetector (src/script.js): the detection session *)
(* (start / stop / clear), the MutationObserver subscription and its       *)
(* record queue, the per-element classification pipeline (analyzeElement,  *)
(* isFloatingElement, hasFloatingCharacteristics) and the statistics.      *)
(*                                                                         *)
(* Strings whose characters the code inspects (className, id, the computed *)
(* z-index) are tuples of one-character strings; strings that are only     *)
(* compared or concatenated (position, reasons) are TLA+ strings.          *)
(***************************************************************************)
EXTENDS Integers, Sequences, FiniteSets, TLC

VARIABLES
    isDetecting,      \* this.isDetecting
    detectedElements, \* this.detectedElements (Set of element handles)
    stats,            \* this.stats
    registrations,    \* the observer's registrations (targets it observes)
    queue,            \* the observer's pending MutationRecords
    results,          \* entries rendered in #detectedElements (one per report)
    attr,             \* data-floating-reasons attribute of each page element
    checks,           \* the three option checkboxes
    inserted,         \* whether the subtree rooted at w1 is in the document
    hasSvg,           \* whether the subtree holds the <svg> element s
    look,             \* class / id / resolved style / layout box of w1, w4, s
    verdict           \* outcome of the last direct isFloatingElement call

vars == <<isDetecting, detectedElements, stats, registrations, queue, results,
          attr, checks, inserted, hasSvg, look, verdict>>

(***************************************************************************)
(* Bounds of the model and constants of the program.                       *)
(***************************************************************************)
\* Most mutation records a page script leaves pending before the callback runs.
MaxPending == 2

\* z-index above which rule P2 fires and stats.highZIndex is counted.
HighZIndexThreshold == 100

\* z-index above which hasFloatingCharacteristics speaks of a high z-index.
CharacteristicZIndex == 50

\* window.innerWidth and window.innerHeight of the page.
Viewport == [innerWidth |-> 8, innerHeight |-> 6]

(***************************************************************************)
(* Strings as tuples of characters.                                        *)
(***************************************************************************)
UpperCase == <<"A","B","C","D","E","F","G","H","I","J","K","L","M",
               "N","O","P","Q","R","S","T","U","V","W","X","Y","Z">>
LowerCase == <<"a","b","c","d","e","f","g","h","i","j","k","l","m",
               "n","o","p","q","r","s","t","u","v","w","x","y","z">>

LowerChar(c) ==
    IF \E i \in 1..26 : UpperCase[i] = c
    THEN LowerCase[CHOOSE i \in 1..26 : UpperCase[i] = c]
    ELSE c

\* String.prototype.toLowerCase
toLowerCase(s) == [i \in 1..Len(s) |-> LowerChar(s[i])]

\* String.prototype.includes
includes(s, k) ==
    \E i \in 0..(Len(s) - Len(k)) : SubSeq(s, i + 1, i + Len(k)) = k

Digits == <<"0","1","2","3","4","5","6","7","8","9">>
IsDigit(c) == \E i \in 1..10 : Digits[i] = c
DigitValue(c) == (CHOOSE i \in 1..10 : Digits[i] = c) - 1

\* Length of the longest prefix of s made of digits.
RECURSIVE DigitPrefix(_)
DigitPrefix(s) ==
    IF s = <<>> \/ ~IsDigit(Head(s)) THEN 0 ELSE 1 + DigitPrefix(Tail(s))

RECURSIVE DigitsValue(_, _)
DigitsValue(s, acc) ==
    IF s = <<>> THEN acc
    ELSE DigitsValue(Tail(s), 10 * acc + DigitValue(Head(s)))

\* parseInt(string): optional sign, then the longest run of digits; NaN when
\* there is none ("auto", "", "undefined").
parseInt(s) ==
    LET neg  == s # <<>> /\ Head(s) = "-"
        body == IF s # <<>> /\ Head(s) \in {"-", "+"} THEN Tail(s) ELSE s
        n    == DigitPrefix(body)
    IN  IF n = 0 THEN [isNaN |-> TRUE, value |-> 0]
        ELSE [isNaN |-> FALSE,
              value |-> (IF neg THEN -1 ELSE 1) * DigitsValue(SubSeq(body, 1, n), 0)]

\* Array.prototype.join(', ') of a sequence of strings
RECURSIVE join(_)
join(seq) ==
    IF seq = <<>> THEN ""
    ELSE IF Len(seq) = 1 THEN seq[1]
    ELSE seq[1] \o ", " \o join(Tail(seq))

(***************************************************************************)
(* The document.  html > body > { main > { ui, list > { noResults, card } }*)
(* , w1 > { s, w2 > w3 > w4 } }.  main, list, noResults and card are the   *)
(* detector's own interface; ui is one more element placed inside <main>;  *)
(* w1..w4 is a page subtree a script can insert and remove as a whole, w4  *)
(* nested three levels below w1; s is an <svg> element, first child of w1. *)
(* card stands for the entries addToResults appends, noResults for the     *)
(* placeholder paragraph clearResults writes.                              *)
(***************************************************************************)
Nodes == {"html", "body", "main", "ui", "list", "noResults", "card",
          "w1", "s", "w2", "w3", "w4"}

\* Elements whose class and style a page script changes.
Styled == {"w1", "w4", "s"}

\* Elements the engine can report, in the model's trees.
PageNodes == {"w1", "s", "w2", "w3", "w4"}

NoNode == "none"

parentNode(n) ==
    CASE n = "html"      -> NoNode
      [] n = "body"      -> "html"
      [] n = "main"      -> "body"
      [] n = "ui"        -> "main"
      [] n = "list"      -> "main"
      [] n = "noResults" -> IF results = <<>> THEN "list" ELSE NoNode
      [] n = "card"      -> IF results # <<>> THEN "list" ELSE NoNode
      [] n = "w1"        -> IF inserted THEN "body" ELSE NoNode
      [] n = "s"         -> IF hasSvg THEN "w1" ELSE NoNode
      [] n = "w2"        -> "w1"
      [] n = "w3"        -> "w2"
      [] n = "w4"        -> "w3"

\* The element and its ancestors, nearest first.
RECURSIVE inclusiveAncestors(_)
inclusiveAncestors(n) ==
    IF n = NoNode THEN <<>> ELSE <<n>> \o inclusiveAncestors(parentNode(n))

Range(f) == {f[i] : i \in DOMAIN f}

isConnected(n) == "html" \in Range(inclusiveAncestors(n))

\* element.children.length
childCount(n) == Cardinality({c \in Nodes : parentNode(c) = n})

tagName(n) ==
    CASE n = "html"      -> "html"
      [] n = "body"      -> "body"
      [] n = "main"      -> "main"
      [] n = "noResults" -> "p"
      [] n = "s"         -> "svg"
      [] OTHER           -> "div"

\* document.querySelectorAll('*'): the connected elements in tree order.
TreeOrder == <<"html", "body", "main", "ui", "list", "noResults", "card",
               "w1", "s", "w2", "w3", "w4">>

querySelectorAll == SelectSeq(TreeOrder, isConnected)

\* parentElement.querySelectorAll('*'): the proper descendants, in tree order.
descendants(p) ==
    SelectSeq(TreeOrder,
              LAMBDA n : n # p /\ p \in Range(inclusiveAncestors(n)))

(***************************************************************************)
(* What an element looks like: its class and id attributes, whether it     *)
(* carries data-app, and the position, z-index and layout box the browser  *)
(* resolves for it while it is in the document.                            *)
(***************************************************************************)
Inside         == [top |-> 1, left |-> 1, right |-> 3, bottom |-> 3]
StraddleLeft   == [top |-> 1, left |-> -1, right |-> 2, bottom |-> 3]
StraddleTop    == [top |-> -1, left |-> 1, right |-> 3, bottom |-> 2]
StraddleRight  == [top |-> 1, left |-> Viewport.innerWidth - 1,
                   right |-> Viewport.innerWidth + 1, bottom |-> 3]
StraddleBottom == [top |-> Viewport.innerHeight - 1, left |-> 1,
                   right |-> 3, bottom |-> Viewport.innerHeight + 1]
Offscreen      == [top |-> 1, left |-> -3, right |-> -1, bottom |-> 3]
EmptyRect      == [top |-> 0, left |-> 0, right |-> 0, bottom |-> 0]

Auto == <<"a","u","t","o">>
Empty == <<>>

PlainLook ==
    [position |-> "static", zIndex |-> Auto, rect |-> Inside,
     className |-> Empty, id |-> Empty, dataApp |-> FALSE]

\* position: fixed; z-index: 9999, class "support-widget"
WidgetLook ==
    [position |-> "fixed", zIndex |-> <<"9","9","9","9">>, rect |-> Inside,
     className |-> <<"s","u","p","p","o","r","t","-","w","i","d","g","e","t">>, id |-> Empty, dataApp |-> FALSE]

\* position: absolute; z-index: 500, fully inside the viewport
AbsoluteHighLook ==
    [position |-> "absolute", zIndex |-> <<"5","0","0">>, rect |-> Inside,
     className |-> Empty, id |-> Empty, dataApp |-> FALSE]

\* position: absolute and nothing else of note
AbsoluteLook ==
    [position |-> "absolute", zIndex |-> Auto, rect |-> Inside,
     className |-> Empty, id |-> Empty, dataApp |-> FALSE]

\* Looks a page script gives an element in the session model.
SessionLooks == {PlainLook, WidgetLook, AbsoluteLook}

\* Inputs of the classifier model.
Positions == {"static", "relative", "fixed", "absolute", "sticky"}
ZIndexes == {Auto, <<"5","0">>, <<"1","0","0">>, <<"5","0","0">>, <<"-","1">>}
Rects == {Inside, StraddleLeft, StraddleBottom, Offscreen}
ClassNames == {Empty, <<"s","u","p","p","o","r","t","-","w","i","d","g","e","t">>, <<"M","o","d","a","l">>}
Ids == {Empty, <<"c","h","a","t","B","o","x">>}

ClassifierLooks ==
    [position : Positions, zIndex : ZIndexes, rect : Rects,
     className : ClassNames, id : Ids, dataApp : {FALSE}]

\* What the root of the subtree looks like around a classified descendant:
\* nothing of note, class "app-root", or a data-app attribute.
ContextLooks ==
    {PlainLook,
     [PlainLook EXCEPT !.className = <<"a","p","p","-","r","o","o","t">>],
     [PlainLook EXCEPT !.dataApp = TRUE]}

lookOf(n) ==
    CASE n \in Styled     -> look[n]
      [] n = "ui"         -> WidgetLook
      [] n = "list"       -> [PlainLook EXCEPT !.className = <<"e","l","e","m","e","n","t","-","l","i","s","t">>,
                                               !.id = <<"d","e","t","e","c","t","e","d","E","l","e","m","e","n","t","s">>]
      [] n = "noResults"  -> [PlainLook EXCEPT !.className = <<"n","o","-","r","e","s","u","l","t","s">>]
      [] n = "card"       -> [PlainLook EXCEPT !.className = <<"d","e","t","e","c","t","e","d","-","e","l","e","m","e","n","t">>]
      [] OTHER            -> PlainLook

\* window.getComputedStyle(element): empty for an element outside the document.
getComputedStyle(n) ==
    IF isConnected(n)
    THEN [position |-> lookOf(n).position, zIndex |-> lookOf(n).zIndex]
    ELSE [position |-> "", zIndex |-> Empty]

\* element.getBoundingClientRect(): all zero outside the document.
getBoundingClientRect(n) ==
    IF isConnected(n) THEN lookOf(n).rect ELSE EmptyRect

\* element.className: a string for an HTML element, an SVGAnimatedString
\* object (no toLowerCase, no split) for an SVG element.
className(n) ==
    [isString |-> tagName(n) # "svg", value |-> lookOf(n).className]

\* element.closest(tag)
closestTag(n, tag) ==
    \E a \in Range(inclusiveAncestors(n)) : tagName(a) = tag

App == <<"a","p","p">>

\* element.closest('[data-app]'), closest('[id*="app"]'), closest('[class*="app"]')
closestDataApp(n) ==
    \E a \in Range(inclusiveAncestors(n)) : lookOf(a).dataApp
closestIdApp(n) ==
    \E a \in Range(inclusiveAncestors(n)) : includes(lookOf(a).id, App)
closestClassApp(n) ==
    \E a \in Range(inclusiveAncestors(n)) : includes(lookOf(a).className, App)

(***************************************************************************)
(* The classifier.                                                         *)
(***************************************************************************)
floatingKeywords ==
    <<<<"f","l","o","a","t">>,
     <<"o","v","e","r","l","a","y">>,
     <<"m","o","d","a","l">>,
     <<"p","o","p","u","p">>,
     <<"t","o","o","l","t","i","p">>,
     <<"d","r","o","p","d","o","w","n">>,
     <<"s","i","d","e","b","a","r">>,
     <<"d","r","a","w","e","r">>,
     <<"p","a","n","e","l">>,
     <<"w","i","d","g","e","t">>,
     <<"c","h","a","t">>,
     <<"n","o","t","i","f","i","c","a","t","i","o","n">>,
     <<"b","a","n","n","e","r">>,
     <<"s","t","i","c","k","y">>,
     <<"f","i","x","e","d">>,
     <<"f","l","o","a","t","i","n","g">>,
     <<"f","a","b">>,
     <<"a","c","t","i","o","n","-","b","u","t","t","o","n">>>>

\* The value hasFloatingCharacteristics returns from the lower-cased class
\* and id, the parsed z-index and the position.
characteristics(element, cls, id, zIndex, position) ==
    LET hasFloatingKeyword ==
            \E i \in DOMAIN floatingKeywords :
                includes(cls, floatingKeywords[i]) \/ includes(id, floatingKeywords[i])
        hasHighZIndex == ~zIndex.isNaN /\ zIndex.value > CharacteristicZIndex
        isPositioned == position \in {"fixed", "absolute", "sticky"}
        isLikelyInjected ==
            /\ ~closestDataApp(element)
            /\ ~closestIdApp(element)
            /\ ~closestClassApp(element)
    IN  \/ hasFloatingKeyword
        \/ (hasHighZIndex /\ isPositioned)
        \/ (isPositioned /\ isLikelyInjected /\ childCount(element) > 0)

\* hasFloatingCharacteristics(element, computedStyle).  threw: the call ended
\* in a TypeError, element.className.toLowerCase not being a function.
hasFloatingCharacteristics(element, computedStyle) ==
    IF className(element).isString
    THEN [threw |-> FALSE,
          value |-> characteristics(element,
                                    toLowerCase(lookOf(element).className),
                                    toLowerCase(lookOf(element).id),
                                    parseInt(computedStyle.zIndex),
                                    computedStyle.position)]
    ELSE [threw |-> TRUE, value |-> FALSE]

\* Rule P3: the box straddles an edge of the viewport.
straddlesViewport(rect) ==
    \/ (rect.left < 0 /\ rect.right > 0)
    \/ (rect.top < 0 /\ rect.bottom > 0)
    \/ (rect.right > Viewport.innerWidth /\ rect.left < Viewport.innerWidth)
    \/ (rect.bottom > Viewport.innerHeight /\ rect.top < Viewport.innerHeight)

\* What isFloatingElement ends with: the value returned, the reasons pushed,
\* and whether data-floating-reasons was written.
outcome(isFloating, reasons) ==
    [threw |-> FALSE, isFloating |-> isFloating, reasons |-> reasons,
     written |-> isFloating /\ Len(reasons) > 0]

\* The four checks of isFloatingElement, in the order the code makes them;
\* p1..p4 tell which of them set isFloating and pushed its reason.
verdictOf(position, zIndex, p1, p2, p3, p4) ==
    outcome(p1 \/ p2 \/ p3 \/ p4,
            (IF p1 THEN <<"Position: " \o position>> ELSE <<>>)
            \o (IF p2 THEN <<"High z-index: " \o ToString(zIndex.value)>> ELSE <<>>)
            \o (IF p3 THEN <<"Partially outside viewport">> ELSE <<>>)
            \o (IF p4 THEN <<"Common floating element characteristics">> ELSE <<>>))

Thrown ==
    [threw |-> TRUE, isFloating |-> FALSE, reasons |-> <<>>, written |-> FALSE]

NotFloating ==
    [threw |-> FALSE, isFloating |-> FALSE, reasons |-> <<>>, written |-> FALSE]

\* The four checks with a position rule that does not look at its checkbox.
rules_ignoresToggle(chk, position, zIndex, rect, h) ==
    IF h.threw THEN Thrown
    ELSE verdictOf(position, zIndex,
                   position \in {"fixed", "absolute", "sticky"},
                   chk.detectHighZIndex /\ ~zIndex.isNaN
                       /\ zIndex.value > HighZIndexThreshold,
                   chk.detectOverflow /\ straddlesViewport(rect)
                       /\ position \in {"fixed", "absolute"},
                   h.value)

\* The four checks with a straddle rule that does not ask for a position.
rules_overflowAlone(chk, position, zIndex, rect, h) ==
    IF h.threw THEN Thrown
    ELSE verdictOf(position, zIndex,
                   chk.detectPosition
                       /\ position \in {"fixed", "absolute", "sticky"},
                   chk.detectHighZIndex /\ ~zIndex.isNaN
                       /\ zIndex.value > HighZIndexThreshold,
                   chk.detectOverflow /\ straddlesViewport(rect),
                   h.value)

rules(chk, position, zIndex, rect, h) ==
    IF h.threw THEN Thrown
    ELSE verdictOf(position, zIndex,
                   chk.detectPosition
                       /\ position \in {"fixed", "absolute", "sticky"},
                   chk.detectHighZIndex /\ ~zIndex.isNaN
                       /\ zIndex.value > HighZIndexThreshold,
                   chk.detectOverflow /\ straddlesViewport(rect)
                       /\ position \in {"fixed", "absolute"},
                   h.value)

\* isFloatingElement without the test that skips the detector's interface.
isFloatingElement_noSkip(element, computedStyle, rect, chk) ==
    rules(chk, computedStyle.position, parseInt(computedStyle.zIndex), rect,
          hasFloatingCharacteristics(element, computedStyle))

\* isFloatingElement(element, computedStyle, rect) under the checkboxes chk.
isFloatingElement(element, computedStyle, rect, chk) ==
    IF \/ closestTag(element, "header")
       \/ closestTag(element, "main")
       \/ closestTag(element, "footer")
    THEN NotFloating
    ELSE rules(chk, computedStyle.position, parseInt(computedStyle.zIndex), rect,
               hasFloatingCharacteristics(element, computedStyle))

(***************************************************************************)
(* The observer.  A registration is one (target, options) pair of the      *)
(* observer's node list; a MutationRecord is queued for a mutation the     *)
(* options of a registration cover.                                        *)
(***************************************************************************)
ObserveOptions ==
    [childList |-> TRUE, subtree |-> TRUE, attributes |-> TRUE,
     attributeFilter |-> {"style", "class"}]

\* observe that adds a registration on every call.
observe_again(regs, target, options) ==
    Append(regs, [target |-> target, options |-> options])

\* MutationObserver.observe(target, options): a second call for a target
\* already observed replaces the options of its registration.
observe(regs, target, options) ==
    IF \E i \in DOMAIN regs : regs[i].target = target
    THEN [i \in DOMAIN regs |->
            IF regs[i].target = target
            THEN [target |-> target, options |-> options] ELSE regs[i]]
    ELSE Append(regs, [target |-> target, options |-> options])

\* Whether a mutation of kind type at node target is recorded under regs.
recorded(regs, type, target, attributeName) ==
    \E i \in DOMAIN regs :
        /\ \/ regs[i].target = target
           \/ regs[i].options.subtree
              /\ regs[i].target \in Range(inclusiveAncestors(target))
        /\ type = "childList" => regs[i].options.childList
        /\ type = "attributes" =>
              /\ regs[i].options.attributes
              /\ attributeName \in regs[i].options.attributeFilter

childListRecord(target, node) ==
    [type |-> "childList", target |-> target, addedNodes |-> <<node>>,
     attributeName |-> "null"]

attributesRecord(target, name) ==
    [type |-> "attributes", target |-> target, addedNodes |-> <<>>,
     attributeName |-> name]

(***************************************************************************)
(* The engine.  es is the part of the state a handler changes while it     *)
(* runs: the registry, the stats, the rendered entries, the attributes     *)
(* written, the records its own DOM writes queue (under regs), and whether *)
(* an exception has ended the handler.                                     *)
(***************************************************************************)
ZeroStats == [total |-> 0, fixed |-> 0, absolute |-> 0, highZIndex |-> 0]

\* The object {} clearResults passes for a computed style.
EmptyObject == [position |-> "undefined", zIndex |-> <<"u","n","d","e","f","i","n","e","d">>]

updateStats(st, computedStyle) ==
    LET zIndex == parseInt(computedStyle.zIndex)
    IN  [total |-> st.total + 1,
         fixed |-> st.fixed + (IF computedStyle.position = "fixed" THEN 1 ELSE 0),
         absolute |-> st.absolute
                      + (IF computedStyle.position = "absolute" THEN 1 ELSE 0),
         highZIndex |-> st.highZIndex
                        + (IF ~zIndex.isNaN /\ zIndex.value > HighZIndexThreshold
                           THEN 1 ELSE 0)]

\* addToResults(element, computedStyle, rect): one more entry in the list,
\* appended as a child of #detectedElements.
addToResults(es, element, computedStyle, rect) ==
    [es EXCEPT
        !.results = Append(@, [element |-> element,
                               position |-> computedStyle.position,
                               zIndex |-> computedStyle.zIndex,
                               reasons |-> IF es.attr[element] # ""
                                           THEN es.attr[element] ELSE "N/A"]),
        !.queue = IF recorded(es.regs, "childList", "list", "null")
                  THEN Append(@, childListRecord("list", "card")) ELSE @]

\* A tail of analyzeElement that registers every element it has classified,
\* match or not, so that none is classified twice.
afterVerdict_remembers(es, element, computedStyle, rect, v) ==
    IF v.threw THEN [es EXCEPT !.threw = TRUE]
    ELSE IF v.isFloating
    THEN [addToResults([es EXCEPT !.attr[element] = IF v.written THEN join(v.reasons) ELSE @,
                                  !.detectedElements = @ \cup {element}],
                       element, computedStyle, rect)
             EXCEPT !.stats = updateStats(@, computedStyle)]
    ELSE [es EXCEPT !.detectedElements = @ \cup {element}]

\* A tail of analyzeElement that keeps only the newest element registered.
afterVerdict_replaces(es, element, computedStyle, rect, v) ==
    IF v.threw THEN [es EXCEPT !.threw = TRUE]
    ELSE IF v.isFloating
    THEN [addToResults([es EXCEPT !.attr[element] = IF v.written THEN join(v.reasons) ELSE @,
                                  !.detectedElements = {element}],
                       element, computedStyle, rect)
             EXCEPT !.stats = updateStats(@, computedStyle)]
    ELSE es

\* The tail of analyzeElement, from the verdict v of isFloatingElement on.
afterVerdict(es, element, computedStyle, rect, v) ==
    IF v.threw THEN [es EXCEPT !.threw = TRUE]
    ELSE IF v.isFloating
    THEN [addToResults([es EXCEPT !.attr[element] = IF v.written THEN join(v.reasons) ELSE @,
                                  !.detectedElements = @ \cup {element}],
                       element, computedStyle, rect)
             EXCEPT !.stats = updateStats(@, computedStyle)]
    ELSE es

inspect(es, element, computedStyle, rect) ==
    afterVerdict(es, element, computedStyle, rect,
                 isFloatingElement(element, computedStyle, rect, checks))

\* analyzeElement without its look at the registry.
analyzeElement_noDedup(es, element) ==
    IF es.threw THEN es
    ELSE IF element \in {"body", "html"} THEN es
    ELSE inspect(es, element, getComputedStyle(element),
                 getBoundingClientRect(element))

analyzeElement(es, element) ==
    IF es.threw THEN es
    ELSE IF element \in {"body", "html"} THEN es
    ELSE IF element \in es.detectedElements THEN es
    ELSE inspect(es, element, getComputedStyle(element),
                 getBoundingClientRect(element))

\* elements.forEach(e => this.analyzeElement(e)); an exception ends the loop.
RECURSIVE analyzeAll(_, _)
analyzeAll(es, elements) ==
    IF elements = <<>> \/ es.threw THEN es
    ELSE analyzeAll(analyzeElement(es, Head(elements)), Tail(elements))

analyzeChildElements(es, parentElement) ==
    analyzeAll(es, descendants(parentElement))

scanExistingElements(es) ==
    analyzeAll(es, SelectSeq(querySelectorAll,
                             LAMBDA e : e # "body" /\ e # "html"))

\* mutation.addedNodes.forEach(...): each element node, then its descendants.
RECURSIVE analyzeAdded(_, _)
analyzeAdded(es, nodes) ==
    IF nodes = <<>> \/ es.threw THEN es
    ELSE analyzeAdded(analyzeChildElements(analyzeElement(es, Head(nodes)),
                                           Head(nodes)),
                      Tail(nodes))

afterAdded(es, mutation) ==
    IF es.threw THEN es
    ELSE IF mutation.type = "attributes"
            /\ mutation.attributeName \in {"style", "class"}
    THEN analyzeElement(es, mutation.target)
    ELSE es

\* The part of the observer callback run for one MutationRecord.
processMutation(es, mutation) ==
    afterAdded(analyzeAdded(es, mutation.addedNodes), mutation)

RECURSIVE processMutations(_, _)
processMutations(es, mutations) ==
    IF mutations = <<>> \/ es.threw THEN es
    ELSE processMutations(processMutation(es, Head(mutations)), Tail(mutations))

\* The callback handed to new MutationObserver(...).
observerCallback(es, mutations) ==
    IF ~isDetecting THEN es ELSE processMutations(es, mutations)

(***************************************************************************)
(* State after construction, and the handlers.                             *)
(***************************************************************************)
NoVerdict ==
    [element |-> NoNode, threw |-> FALSE, isFloating |-> FALSE,
     reasons |-> <<>>, written |-> FALSE]

AllChecked ==
    [detectPosition |-> TRUE, detectHighZIndex |-> TRUE, detectOverflow |-> TRUE]

\* constructor(): idle, nothing detected, observer created but not observing.
EngineInit ==
    /\ isDetecting = FALSE
    /\ detectedElements = {}
    /\ stats = ZeroStats
    /\ registrations = <<>>
    /\ queue = <<>>
    /\ results = <<>>
    /\ attr = [n \in Nodes |-> ""]
    /\ verdict = NoVerdict

Init ==
    /\ EngineInit
    /\ checks = AllChecked
    /\ inserted \in BOOLEAN
    /\ hasSvg \in BOOLEAN
    /\ look = [n \in Styled |-> PlainLook]

running(regs, q) ==
    [detectedElements |-> detectedElements, stats |-> stats, attr |-> attr,
     results |-> results, queue |-> q, regs |-> regs, threw |-> FALSE]

finish(es) ==
    /\ detectedElements' = es.detectedElements
    /\ stats' = es.stats
    /\ attr' = es.attr
    /\ results' = es.results
    /\ queue' = es.queue

\* A click handler runs as a task of its own: the records of earlier tasks
\* have been delivered when it starts.
taskStart == queue = <<>>

startDetection ==
    /\ taskStart
    /\ isDetecting' = TRUE
    /\ registrations' = observe(registrations, "body", ObserveOptions)
    /\ finish(scanExistingElements(running(registrations', queue)))
    /\ UNCHANGED <<checks, inserted, hasSvg, look, verdict>>

\* stopDetection that also forgets what was detected.
stopDetection_forgets ==
    /\ isDetecting' = FALSE
    /\ registrations' = <<>>
    /\ queue' = <<>>
    /\ detectedElements' = {}
    /\ stats' = ZeroStats
    /\ UNCHANGED <<results, attr, checks, inserted, hasSvg, look, verdict>>

\* disconnect() drops the registrations and the records still pending.
stopDetection ==
    /\ isDetecting' = FALSE
    /\ registrations' = <<>>
    /\ queue' = <<>>
    /\ UNCHANGED <<detectedElements, stats, results, attr, checks, inserted,
                   hasSvg, look, verdict>>

\* The class highlightElement puts on the element of a clicked entry.  The
\* classList keeps its tokens in order, so a token added last is the end of
\* the class attribute.
HighlightedElement ==
    <<"h","i","g","h","l","i","g","h","t","e","d","-","e","l","e","m","e","n","t">>

\* element.classList.contains('highlighted-element')
hasHighlight(cls) ==
    /\ Len(cls) >= Len(HighlightedElement)
    /\ SubSeq(cls, Len(cls) - Len(HighlightedElement) + 1, Len(cls))
          = HighlightedElement
    /\ IF Len(cls) = Len(HighlightedElement) THEN TRUE
       ELSE cls[Len(cls) - Len(HighlightedElement)] = " "

\* element.classList.add('highlighted-element')
addHighlight(cls) ==
    IF hasHighlight(cls) THEN cls
    ELSE IF cls = <<>> THEN HighlightedElement
    ELSE cls \o <<" ">> \o HighlightedElement

\* element.classList.remove('highlighted-element')
removeHighlight(cls) ==
    IF ~hasHighlight(cls) THEN cls
    ELSE IF Len(cls) = Len(HighlightedElement) THEN <<>>
    ELSE SubSeq(cls, 1, Len(cls) - Len(HighlightedElement) - 1)

\* document.querySelectorAll('.highlighted-element'), in document order.
highlightedElements ==
    SelectSeq(<<"w1", "s", "w4">>,
              LAMBDA e : isConnected(e) /\ hasHighlight(look[e].className))

\* The looks after classList.remove('highlighted-element') on each of them.
unhighlighted ==
    [e \in Styled |->
        IF isConnected(e)
        THEN [look[e] EXCEPT !.className = removeHighlight(@)]
        ELSE look[e]]

\* The class records those removals queue under regs.
RECURSIVE classRecords(_, _)
classRecords(regs, elements) ==
    IF elements = <<>> THEN <<>>
    ELSE (IF recorded(regs, "attributes", Head(elements), "class")
          THEN <<attributesRecord(Head(elements), "class")>> ELSE <<>>)
         \o classRecords(regs, Tail(elements))

\* clearResults that also ends the session.
clearResults_stops ==
    /\ taskStart
    /\ detectedElements' = {}
    /\ stats' = updateStats(ZeroStats, EmptyObject)
    /\ results' = <<>>
    /\ isDetecting' = FALSE
    /\ registrations' = <<>>
    /\ queue' = <<>>
    /\ UNCHANGED <<attr, checks, inserted, hasSvg, look, verdict>>

clearResults ==
    /\ taskStart
    /\ detectedElements' = {}
    /\ stats' = updateStats(ZeroStats, EmptyObject)
    /\ results' = <<>>
    /\ look' = unhighlighted
    /\ queue' = (IF recorded(registrations, "childList", "list", "null")
                 THEN Append(queue, childListRecord("list", "noResults"))
                 ELSE queue)
                \o classRecords(registrations, highlightedElements)
    /\ UNCHANGED <<isDetecting, registrations, attr, checks, inserted, hasSvg,
                   verdict>>

\* The MutationObserver delivers the pending records to the callback.
deliverMutations ==
    /\ queue # <<>>
    /\ finish(observerCallback(running(registrations, <<>>), queue))
    /\ UNCHANGED <<isDetecting, registrations, checks, inserted, hasSvg, look,
                   verdict>>

(***************************************************************************)
(* The page: the user ticks a checkbox, a script inserts or removes the    *)
(* subtree, or rewrites the style or class attribute of an element.        *)
(***************************************************************************)
CheckNames == {"detectPosition", "detectHighZIndex", "detectOverflow"}

\* The checkbox ticked and unticked during a session; the classifier model
\* covers every combination of the three.
SessionChecks == {"detectPosition"}

toggleCheck(c) ==
    /\ taskStart
    /\ checks' = [checks EXCEPT ![c] = ~@]
    /\ UNCHANGED <<isDetecting, detectedElements, stats, registrations, queue,
                   results, attr, inserted, hasSvg, look, verdict>>

appendSubtree ==
    /\ ~inserted
    /\ Len(queue) < MaxPending
    /\ inserted' = TRUE
    /\ queue' = IF recorded(registrations, "childList", "body", "null")
                THEN Append(queue, childListRecord("body", "w1")) ELSE queue
    /\ UNCHANGED <<isDetecting, detectedElements, stats, registrations, results,
                   attr, checks, hasSvg, look, verdict>>

removeSubtree ==
    /\ inserted
    /\ Len(queue) < MaxPending
    /\ inserted' = FALSE
    /\ queue' = IF recorded(registrations, "childList", "body", "null")
                THEN Append(queue, [childListRecord("body", "w1")
                                      EXCEPT !.addedNodes = <<>>])
                ELSE queue
    /\ UNCHANGED <<isDetecting, detectedElements, stats, registrations, results,
                   attr, checks, hasSvg, look, verdict>>

\* element.setAttribute(name, ...) for name style or class, after which the
\* element looks like l; the style attribute leaves class and id as they are.
setAttribute(e, name, l) ==
    /\ Len(queue) < MaxPending
    /\ name = "style" =>
          /\ l.className = look[e].className
          /\ l.id = look[e].id
          /\ l.dataApp = look[e].dataApp
    /\ look' = [look EXCEPT ![e] = l]
    /\ queue' = IF recorded(registrations, "attributes", e, name)
                THEN Append(queue, attributesRecord(e, name)) ELSE queue
    /\ UNCHANGED <<isDetecting, detectedElements, stats, registrations, results,
                   attr, checks, inserted, hasSvg, verdict>>

Next ==
    \/ startDetection
    \/ stopDetection
    \/ clearResults
    \/ deliverMutations
    \/ \E c \in SessionChecks : toggleCheck(c)
    \/ appendSubtree
    \/ removeSubtree
    \/ \E e \in {"w1", "w4"}, name \in {"style", "class"}, l \in SessionLooks :
          setAttribute(e, name, l)

Spec == Init /\ [][Next]_vars

(***************************************************************************)
(* The classifier on its own: isFloatingElement called on one element of a *)
(* document whose looks and checkboxes are drawn from the input sets.      *)
(***************************************************************************)
ClassifierTargets == {"w1", "w4", "s", "ui"}

InitClassifier ==
    /\ EngineInit
    /\ checks \in [CheckNames -> BOOLEAN]
    /\ inserted = TRUE
    /\ hasSvg = TRUE
    /\ \E e \in Styled, l \in ClassifierLooks, c \in ContextLooks :
          /\ e # "w4" => c = PlainLook
          /\ look = [n \in Styled |->
                        IF n = e THEN l ELSE IF n = "w1" THEN c ELSE PlainLook]

called(e, v) ==
    [element |-> e, threw |-> v.threw, isFloating |-> v.isFloating,
     reasons |-> v.reasons, written |-> v.written]

classify(e) ==
    /\ verdict' = called(e, isFloatingElement(e, getComputedStyle(e),
                                              getBoundingClientRect(e), checks))
    /\ attr' = IF verdict'.written
               THEN [attr EXCEPT ![e] = join(verdict'.reasons)] ELSE attr
    /\ UNCHANGED <<isDetecting, detectedElements, stats, registrations,
                   queue, results, checks, inserted, hasSvg, look>>

NextClassifier == \E e \in ClassifierTargets : classify(e)

SpecClassifier == InitClassifier /\ [][NextClassifier]_vars

(***************************************************************************)
(* Attribute changes on their own: a session over a document that holds    *)
(* the whole subtree, the <svg> element included, in which a script        *)
(* rewrites the style or class attribute of w1, w4 or s, or the id         *)
(* attribute of w4, which the observer does not watch.                     *)
(***************************************************************************)
ChatBox == <<"c","h","a","t","B","o","x">>

InitAttributes ==
    /\ EngineInit
    /\ checks = AllChecked
    /\ inserted = TRUE
    /\ hasSvg = TRUE
    /\ look = [n \in Styled |-> PlainLook]

\* element.id = ... / element.removeAttribute('id')
setId(e) ==
    setAttribute(e, "id",
                 [look[e] EXCEPT !.id = IF @ = Empty THEN ChatBox ELSE Empty])

NextAttributes ==
    \/ startDetection
    \/ stopDetection
    \/ deliverMutations
    \/ \E c \in SessionChecks : toggleCheck(c)
    \/ \E e \in Styled, name \in {"style", "class"}, l \in SessionLooks :
          setAttribute(e, name, [l EXCEPT !.id = look[e].id])
    \/ setId("w4")

SpecAttributes == InitAttributes /\ [][NextAttributes]_vars

\* The elements the entries of the list stand for.
reportedElements(rs) == {rs[i].element : i \in DOMAIN rs}

(***************************************************************************)
(* The engine on a page that does not change: the elements keep the looks  *)
(* they start with and no script inserts or removes anything.  The user    *)
(* starts, stops and clears, ticks the position checkbox, and clicks an    *)
(* entry of the list, which highlights its element for three seconds.      *)
(***************************************************************************)
InitQuiescent ==
    /\ EngineInit
    /\ checks = AllChecked
    /\ inserted \in BOOLEAN
    /\ hasSvg \in BOOLEAN
    /\ look \in [Styled -> SessionLooks]

\* highlightElement(element), the click handler of the entry of e: the
\* elements highlighted so far lose the class, e gets it.
highlightElement(e) ==
    /\ taskStart
    /\ e \in reportedElements(results)
    /\ look' = [unhighlighted EXCEPT ![e].className = addHighlight(@)]
    /\ queue' = queue \o classRecords(registrations, highlightedElements)
                      \o classRecords(registrations, <<e>>)
    /\ UNCHANGED <<isDetecting, detectedElements, stats, registrations, results,
                   attr, checks, inserted, hasSvg, verdict>>

\* The setTimeout callback of highlightElement, for an element that still
\* carries the class.
highlightTimeout(e) ==
    /\ taskStart
    /\ hasHighlight(look[e].className)
    /\ look' = [look EXCEPT ![e].className = removeHighlight(@)]
    /\ queue' = queue \o classRecords(registrations, <<e>>)
    /\ UNCHANGED <<isDetecting, detectedElements, stats, registrations, results,
                   attr, checks, inserted, hasSvg, verdict>>

NextQuiescent ==
    \/ startDetection
    \/ stopDetection
    \/ clearResults
    \/ deliverMutations
    \/ \E c \in SessionChecks : toggleCheck(c)
    \/ \E e \in {"w1", "w4"} : highlightElement(e)
    \/ \E e \in {"w1", "w4"} : highlightTimeout(e)

SpecQuiescent == InitQuiescent /\ [][NextQuiescent]_vars

(***************************************************************************)
(* Properties.                                                             *)
(***************************************************************************)

NoDuplicates(rs) ==
    \A i, j \in DOMAIN rs : i # j => rs[i].element # rs[j].element

statNames == {"total", "fixed", "absolute", "highZIndex"}

\* Whether isFloatingElement returns true for e as the document stands.
matches(e) ==
    isFloatingElement(e, getComputedStyle(e), getBoundingClientRect(e),
                      checks).isFloating

\* C1: in a step that is not clear (start, stop, a delivered batch, a page
\* mutation) the entries only grow by elements that were not in the registry,
\* no element has two entries, the registry holds exactly the reported
\* elements, and stats.total rises by the number of new entries: an element
\* is reported and counted at most once until the next clear.
C1_ReportedAtMostOnce ==
    [][~clearResults =>
          /\ Len(results') >= Len(results)
          /\ SubSeq(results', 1, Len(results)) = results
          /\ NoDuplicates(results')
          /\ reportedElements(results') = detectedElements'
          /\ stats'.total - stats.total = Len(results') - Len(results)]_vars

\* C1 witness: w4 is in the registry, has one entry, and no longer looks as
\* it did when it was reported, in an active session with no record pending:
\* it has been classified again (by a delivered record or a new scan).
C1_Witness ==
    /\ isDetecting /\ queue = <<>> /\ inserted
    /\ "w4" \in detectedElements
    /\ \E i \in DOMAIN results :
          /\ results[i].element = "w4"
          /\ results[i].position # look["w4"].position
          /\ matches("w4")

\* C2: a clear step leaves the registry empty and every counter at 0.
C2_ClearZeroesStats ==
    [][clearResults =>
          /\ detectedElements' = {}
          /\ \A k \in statNames : stats'[k] = 0]_vars

\* C4: there is one registration while detecting and none while idle.
C4_OneSubscriptionIffActive ==
    Len(registrations) = IF isDetecting THEN 1 ELSE 0

\* C4 witness: an active session that has been cleared and has detected
\* since (the total runs one ahead of the registry only after a clear).
C4_Witness ==
    /\ isDetecting
    /\ Len(registrations) = 1
    /\ detectedElements # {}
    /\ stats.total = Cardinality(detectedElements) + 1

\* C5: a stop step (any step of stopDetection, any step that ends a session)
\* keeps the registry, the stats and the entries, and leaves the engine idle
\* with no registration.
C5_StopKeepsResults ==
    [][(stopDetection \/ (isDetecting /\ ~isDetecting')) =>
          /\ detectedElements' = detectedElements
          /\ stats' = stats
          /\ results' = results
          /\ isDetecting' = FALSE
          /\ registrations' = <<>>]_vars

\* C5 witness: idle with a registry that is not empty.
C5_Witness ==
    /\ ~isDetecting
    /\ registrations = <<>>
    /\ Cardinality(detectedElements) = 2
    /\ stats.total >= 2

\* Elements that carry data-floating-reasons (they were reported before), are
\* in the document and still match.
stillMatching ==
    {e \in PageNodes : attr[e] # "" /\ isConnected(e) /\ matches(e)}

\* C3: a start step taken idle, with the registry and the entries empty and
\* N elements reported earlier still in the tree and still matching (nothing
\* else matches): the stats are all zero before the step, and after it the
\* registry holds exactly those N elements, each has one entry, and
\* stats.total = N.
C3_RestartAfterClear ==
    [][(/\ startDetection
        /\ ~isDetecting /\ detectedElements = {} /\ results = <<>>
        /\ stillMatching # {}
        /\ \A e \in PageNodes : isConnected(e) /\ matches(e) => e \in stillMatching)
       =>
       (/\ stats = ZeroStats
        /\ detectedElements' = stillMatching
        /\ reportedElements(results') = stillMatching
        /\ NoDuplicates(results')
        /\ stats'.total = Cardinality(stillMatching))]_vars

\* C6: a clear step changes neither isDetecting nor the registrations nor
\* the records pending, and in a session that is active after it insertions
\* under body and style or class changes are still recorded for the callback.
C6_ClearKeepsSession ==
    [][clearResults =>
          /\ isDetecting' = isDetecting
          /\ registrations' = registrations
          /\ Len(queue') >= Len(queue)
          /\ SubSeq(queue', 1, Len(queue)) = queue
          /\ isDetecting' =>
                /\ recorded(registrations', "childList", "body", "null")
                /\ recorded(registrations', "attributes", "body", "style")
                /\ recorded(registrations', "attributes", "body", "class")]_vars

\* C6 witness: an active session that has just been cleared (registry empty,
\* total and entries as clear leaves them) holds a style or class record
\* queued after the clear.
C6_Witness ==
    /\ isDetecting /\ registrations # <<>>
    /\ detectedElements = {} /\ results = <<>>
    /\ stats.total > 0
    /\ queue # <<>>
    /\ queue[Len(queue)].type = "attributes"

\* C7: outside clear the registry loses no member and no counter decreases;
\* while idle, a step that is neither start nor clear leaves registry, stats
\* and entries as they are.
C7_RegistryAndStatsMonotone ==
    [][/\ ~clearResults =>
            /\ detectedElements \subseteq detectedElements'
            /\ \A k \in statNames : stats[k] <= stats'[k]
       /\ (~isDetecting /\ ~startDetection /\ ~clearResults) =>
            /\ detectedElements' = detectedElements
            /\ stats' = stats
            /\ results' = results]_vars

\* C7 witness: the registry has grown to two elements, one counted as fixed
\* and one as absolute, in an active session.
C7_Witness ==
    /\ isDetecting
    /\ Cardinality(detectedElements) = 2
    /\ stats.fixed = 1 /\ stats.absolute = 1

\* C8: after a start step every element of the document other than html and
\* body that matches is in the registry.
C8_ScanCoversTree ==
    [][startDetection =>
          \A e \in Nodes \ {"html", "body"} :
              (isConnected(e) /\ matches(e)) => e \in detectedElements']_vars

\* C9: when the callback processes the record of the inserted subtree in an
\* active session, exactly the matching elements of the subtree that were not
\* registered are added to the registry, each gets one entry, and stats.total
\* rises by their number.
C9_InsertedSubtreeClassified ==
    [][(/\ deliverMutations
        /\ isDetecting /\ inserted
        /\ queue = <<childListRecord("body", "w1")>>)
       =>
       LET new == {e \in PageNodes : isConnected(e) /\ matches(e)}
                      \ detectedElements
       IN  /\ detectedElements' = detectedElements \cup new
           /\ Len(results') = Len(results) + Cardinality(new)
           /\ NoDuplicates(results')
           /\ stats'.total = stats.total + Cardinality(new)]_vars

\* The characters of s as one string.
RECURSIVE text(_)
text(s) == IF s = <<>> THEN "" ELSE Head(s) \o text(Tail(s))

insideViewport(rect) ==
    /\ rect.left >= 0 /\ rect.top >= 0
    /\ rect.right <= Viewport.innerWidth
    /\ rect.bottom <= Viewport.innerHeight

inEngineUI(e) ==
    \E a \in Range(inclusiveAncestors(e)) : tagName(a) \in {"header", "main", "footer"}

\* The element of the last isFloatingElement call is outside the engine UI,
\* absolute, with a numeric z-index above 100 and a box inside the viewport,
\* and all three checkboxes are ticked.
absoluteHighInside ==
    /\ verdict.element # NoNode
    /\ checks = AllChecked
    /\ ~inEngineUI(verdict.element)
    /\ getComputedStyle(verdict.element).position = "absolute"
    /\ getComputedStyle(verdict.element).zIndex \in {<<"5","0","0">>}
    /\ insideViewport(getBoundingClientRect(verdict.element))

\* C10: such an element is a match whose reasons include "Position: absolute"
\* and "High z-index: <value>" and not "Partially outside viewport".
C10_AbsoluteHighZIndexInside ==
    absoluteHighInside =>
        /\ verdict.isFloating
        /\ "Position: absolute" \in Range(verdict.reasons)
        /\ ("High z-index: " \o text(getComputedStyle(verdict.element).zIndex))
              \in Range(verdict.reasons)
        /\ "Partially outside viewport" \notin Range(verdict.reasons)

\* The same for an HTML element (one whose className is a string).
C10_HtmlElement ==
    (absoluteHighInside /\ tagName(verdict.element) # "svg") =>
        /\ verdict.isFloating
        /\ "Position: absolute" \in Range(verdict.reasons)
        /\ ("High z-index: " \o text(getComputedStyle(verdict.element).zIndex))
              \in Range(verdict.reasons)
        /\ "Partially outside viewport" \notin Range(verdict.reasons)

\* The verdict isFloatingElement gives the element of the last call when its
\* layout box is rect, everything else as it is.
verdictWithRect(rect) ==
    isFloatingElement(verdict.element, getComputedStyle(verdict.element), rect,
                      checks)

\* C11: for an element whose position is neither fixed nor absolute the
\* reasons never hold "Partially outside viewport", and the verdict and the
\* reasons are those of the same element with a box inside the viewport: the
\* box alone decides nothing.  In particular a static element over the left
\* edge that no other rule catches is not a match.
C11_OverflowAloneNeverMatches ==
    (/\ verdict.element # NoNode
     /\ getComputedStyle(verdict.element).position \notin {"fixed", "absolute"})
    =>
    /\ "Partially outside viewport" \notin Range(verdict.reasons)
    /\ verdict.isFloating = verdictWithRect(Inside).isFloating
    /\ verdict.reasons = verdictWithRect(Inside).reasons
    /\ (/\ getComputedStyle(verdict.element).position = "static"
        /\ ~verdictWithRect(Inside).isFloating)
       => ~verdict.isFloating

\* C11 witness: a static element over the left edge of the viewport was
\* classified with the overflow check ticked and is not a match.
C11_Witness ==
    /\ verdict.element = "w4"
    /\ ~verdict.threw
    /\ checks.detectOverflow
    /\ getComputedStyle("w4").position = "static"
    /\ getBoundingClientRect("w4") = StraddleLeft
    /\ straddlesViewport(getBoundingClientRect("w4"))
    /\ ~verdict.isFloating

\* The verdict isFloatingElement gives the element of the last call when its
\* computed position and z-index are as given, everything else as it is.
verdictWithStyle(position, zIndex) ==
    isFloatingElement(verdict.element,
                      [position |-> position, zIndex |-> zIndex],
                      getBoundingClientRect(verdict.element), checks)

positionLabels == {"Position: " \o p : p \in Positions}

zIndexLabels ==
    {"High z-index: " \o text(z) : z \in ZIndexes \cup {<<"9","9","9","9">>}}

\* C12 as stated: with a check off, an element that differs from an element
\* that does not match only in what that check looks at (its position, its
\* z-index, its layout box) does not match.
C12_DisabledCheckNeverMatches ==
    verdict.element # NoNode =>
        /\ (/\ ~checks.detectPosition
            /\ ~verdictWithStyle("static",
                                 getComputedStyle(verdict.element).zIndex).isFloating)
           => ~verdict.isFloating
        /\ (/\ ~checks.detectHighZIndex
            /\ ~verdictWithStyle(getComputedStyle(verdict.element).position,
                                 Auto).isFloating)
           => ~verdict.isFloating
        /\ (/\ ~checks.detectOverflow
            /\ ~verdictWithRect(Inside).isFloating)
           => ~verdict.isFloating

\* C12 as amended: with a check off, the reasons never hold the label of its
\* rule and a match always comes with the reason of another rule; with the
\* overflow check off the verdict and reasons are those of the element with
\* a box inside the viewport; with all three off the only reason there can
\* be is that of the characteristics rule, which has no checkbox.
C12_DisabledRuleGivesNoReason ==
    verdict.element # NoNode =>
        /\ ~checks.detectPosition => Range(verdict.reasons) \cap positionLabels = {}
        /\ ~checks.detectHighZIndex => Range(verdict.reasons) \cap zIndexLabels = {}
        /\ ~checks.detectOverflow =>
              /\ "Partially outside viewport" \notin Range(verdict.reasons)
              /\ verdict.isFloating = verdictWithRect(Inside).isFloating
              /\ verdict.reasons = verdictWithRect(Inside).reasons
        /\ verdict.isFloating <=> verdict.reasons # <<>>
        /\ (~checks.detectPosition /\ ~checks.detectHighZIndex /\ ~checks.detectOverflow)
           => verdict.reasons \in {<<>>, <<"Common floating element characteristics">>}

\* C12 witness: an absolute element was classified with the position check
\* off and is not a match.
C12_Witness ==
    /\ verdict.element = "w4"
    /\ ~verdict.threw
    /\ ~checks.detectPosition
    /\ getComputedStyle("w4").position = "absolute"
    /\ ~verdict.isFloating

\* C13: a scan and a delivered batch run to their end without an exception,
\* whatever elements they classify, and an element that is outside the
\* document when it is classified (no computed style, no layout box) is not
\* added to the registry.
C13_ClassificationTotal ==
    [][/\ startDetection =>
            ~scanExistingElements(running(registrations', queue)).threw
       /\ deliverMutations =>
            ~observerCallback(running(registrations, <<>>), queue).threw
       /\ (startDetection \/ deliverMutations) =>
            \A e \in detectedElements' \ detectedElements : isConnected(e)]_vars

\* C14: in a start step taken idle the scan runs while nothing is observed,
\* the registration being made after it: none of the writes the scan makes to
\* the document (the entries it appends) is recorded, so no record is pending
\* when the step ends, and the step ends active with one registration.
C14_ScanBeforeSubscribe ==
    [][(startDetection /\ registrations = <<>>) =>
          /\ isDetecting'
          /\ Len(registrations') = 1
          /\ queue' = queue]_vars

\* Targets of the style and class records of a batch.
watchedTargets(mutations) ==
    {mutations[i].target : i \in {j \in DOMAIN mutations :
        /\ mutations[j].type = "attributes"
        /\ mutations[j].attributeName \in {"style", "class"}}}

\* C15: when a batch of attribute records is delivered in an active session,
\* the elements classified are exactly the targets of its style and class
\* records: the registry grows by the targets that match and were not
\* registered, by no descendant of a target, each new element gets one entry
\* and one count; a change of another attribute (id) queues no record and
\* changes nothing in the engine.
C15_AttributeRecordClassifiesTarget ==
    [][/\ (deliverMutations /\ isDetecting) =>
            /\ detectedElements' =
                  detectedElements \cup {e \in watchedTargets(queue) : matches(e)}
            /\ Len(results') - Len(results)
                  = Cardinality(detectedElements' \ detectedElements)
            /\ stats'.total - stats.total
                  = Cardinality(detectedElements' \ detectedElements)
       /\ setId("w4") =>
            UNCHANGED <<queue, detectedElements, stats, results, attr,
                        isDetecting, registrations>>]_vars

\* The element a delivered batch classifies first: the target of a style or
\* class record, or the node a childList record adds.
firstClassified(mutations) ==
    IF Head(mutations).addedNodes # <<>> THEN Head(mutations).addedNodes[1]
    ELSE IF Head(mutations).type = "attributes" THEN Head(mutations).target
    ELSE NoNode

\* The entries of rs for e carry the position and z-index e has now.
freshEntry(rs, e) ==
    /\ Cardinality({i \in DOMAIN rs : rs[i].element = e}) = 1
    /\ \A i \in DOMAIN rs :
          rs[i].element = e =>
              /\ rs[i].position = getComputedStyle(e).position
              /\ rs[i].zIndex = getComputedStyle(e).zIndex

\* C16: a step adds to the registry only elements that match as they are
\* now, each with one entry carrying its present position and z-index, so
\* an element found not to match is left out; and
\* an unregistered element that matches now is reported, once and with its
\* present position and z-index, when it is classified again: w1 by a new
\* scan, the first element of a delivered batch by that batch.
C16_NoMatchNotRemembered ==
    [][/\ \A e \in detectedElements' \ detectedElements :
            matches(e) /\ freshEntry(results', e)
       /\ (/\ queue = <<>> /\ isDetecting' /\ look' = look /\ checks' = checks
           /\ inserted /\ "w1" \notin detectedElements /\ matches("w1")
           /\ startDetection) =>
            "w1" \in detectedElements' /\ freshEntry(results', "w1")
       /\ (/\ queue # <<>> /\ isDetecting /\ isDetecting' /\ look' = look
           /\ inserted' = inserted
           /\ firstClassified(queue) \in PageNodes \ detectedElements
           /\ matches(firstClassified(queue))
           /\ deliverMutations) =>
            /\ firstClassified(queue) \in detectedElements'
            /\ freshEntry(results', firstClassified(queue))]_vars

\* C16 witness: in an active session over the subtree w4, now absolute, is
\* registered with one entry carrying that position, and w1, which does not
\* match, is not registered.
C16_Witness ==
    /\ isDetecting /\ queue = <<>> /\ inserted
    /\ detectedElements = {"w4"}
    /\ look["w4"] = AbsoluteLook
    /\ freshEntry(results, "w4")
    /\ ~matches("w1")

rulesEvaluated ==
    /\ verdict.element # NoNode
    /\ ~inEngineUI(verdict.element)

\* Which rules fired for the element of the last call, from its snapshot.
firedPosition ==
    /\ checks.detectPosition
    /\ getComputedStyle(verdict.element).position \in {"fixed", "absolute", "sticky"}

firedZIndex ==
    /\ checks.detectHighZIndex
    /\ ~parseInt(getComputedStyle(verdict.element).zIndex).isNaN
    /\ parseInt(getComputedStyle(verdict.element).zIndex).value > HighZIndexThreshold

firedStraddle ==
    /\ checks.detectOverflow
    /\ straddlesViewport(getBoundingClientRect(verdict.element))
    /\ getComputedStyle(verdict.element).position \in {"fixed", "absolute"}

firedLexical ==
    hasFloatingCharacteristics(verdict.element,
                               getComputedStyle(verdict.element)).value

\* C18: the reasons of the verdict are the labels of the rules that fired,
\* one each, in the order position, z-index, viewport straddle,
\* characteristics, and the element is a match exactly when one of them
\* fired.
C18_ReasonsInEvaluationOrder ==
    rulesEvaluated =>
        /\ verdict.reasons =
              (IF firedPosition
               THEN <<"Position: " \o getComputedStyle(verdict.element).position>>
               ELSE <<>>)
              \o (IF firedZIndex
                  THEN <<"High z-index: "
                         \o text(getComputedStyle(verdict.element).zIndex)>>
                  ELSE <<>>)
              \o (IF firedStraddle THEN <<"Partially outside viewport">> ELSE <<>>)
              \o (IF firedLexical
                  THEN <<"Common floating element characteristics">> ELSE <<>>)
        /\ verdict.isFloating
              <=> (firedPosition \/ firedZIndex \/ firedStraddle \/ firedLexical)

\* The same for the calls that return (an HTML element).
C18_ReturnedVerdict ==
    ~verdict.threw => C18_ReasonsInEvaluationOrder

\* C19: a call of isFloatingElement changes nothing but the verdict it
\* returns: no attribute of the inspected element, nothing of its look, and
\* no state of the engine.
C19_ClassifierIsPure ==
    [][NextClassifier =>
          /\ attr' = attr
          /\ look' = look
          /\ UNCHANGED <<isDetecting, detectedElements, stats, registrations,
                         queue, results, checks>>]_vars

\* The element of the last call has a floating-UI keyword in its class or id.
hasKeyword ==
    \E i \in DOMAIN floatingKeywords :
        \/ includes(toLowerCase(lookOf(verdict.element).className), floatingKeywords[i])
        \/ includes(toLowerCase(lookOf(verdict.element).id), floatingKeywords[i])

positioned ==
    getComputedStyle(verdict.element).position \in {"fixed", "absolute", "sticky"}

\* The element of the last call is, or lies inside, an element marked as an
\* application root (data-app, or "app" in its id or class).
inAppRoot ==
    \/ closestDataApp(verdict.element)
    \/ closestIdApp(verdict.element)
    \/ closestClassApp(verdict.element)

\* C20: for an element outside header, main and footer the verdict holds the
\* reason "Common floating element characteristics", and is a match by it,
\* exactly when the class or id holds a keyword, or the z-index is above 50
\* and the element is positioned, or it is positioned, outside an application
\* root and has a child element.
C20_CharacteristicsRule ==
    (verdict.element # NoNode /\ ~inEngineUI(verdict.element)) =>
        LET fires ==
                \/ hasKeyword
                \/ /\ ~parseInt(getComputedStyle(verdict.element).zIndex).isNaN
                   /\ parseInt(getComputedStyle(verdict.element).zIndex).value
                          > CharacteristicZIndex
                   /\ positioned
                \/ /\ positioned
                   /\ ~inAppRoot
                   /\ childCount(verdict.element) > 0
        IN  /\ fires <=> "Common floating element characteristics"
                             \in Range(verdict.reasons)
            /\ fires => verdict.isFloating

\* C21: stats.total is the number of elements in the registry.
C21_TotalEqualsRegistrySize ==
    stats.total = Cardinality(detectedElements)

\* C22: on a page that does not change, a delivered batch (the records of the
\* engine's own writes) leaves the registry, the stats and the entries as
\* they are and queues no further record: the engine is quiescent after it.
C22_OwnWritesDoNotFeedBack ==
    [][deliverMutations =>
          /\ detectedElements' = detectedElements
          /\ stats' = stats
          /\ results' = results
          /\ queue' = <<>>]_vars

\* The same for the batches that hold no record of a class change, those of
\* the entries and the placeholder written under main.
C22_EntryRecordsDoNotFeedBack ==
    [][(/\ queue # <<>>
        /\ \A i \in DOMAIN queue : queue[i].type = "childList"
        /\ deliverMutations) =>
          /\ detectedElements' = detectedElements
          /\ stats' = stats
          /\ results' = results
          /\ queue' = <<>>]_vars

====
